---- MODULE Spec2Model ----
(***************************************************************************)
(* A model of describe_aws_resource.py: the classification of an           *)
(* identifier (parse_arn, parse_s3_url, the bare prefixes, the Route 53    *)
(* lookup), main's dry-run switch and the describe dispatch.               *)
(*                                                                         *)
(* A Python str is a sequence of one-character strings, so that the       *)
(* regular expressions and the splits are computed, not assumed.  None is *)
(* the one-element sequence NoneVal, which no str over characters equals, *)
(* and a dict is a function on its keys.                                   *)
(* stdout holds what print and print_json write; the messages of print_err *)
(* and the traceback of an uncaught exception are not kept, the exception  *)
(* is (error).  list_hosted_zones answers one page (MaxItems="100"): the   *)
(* zones of that page are the zones the program knows.                     *)
(***************************************************************************)
EXTENDS Integers, Sequences, FiniteSets, TLC

\* ------------------------------------------------------------- bounds
\* Longest tail appended to one of the identifier heads.
MaxTail == 3
\* Most hosted zones one list_hosted_zones answer holds.
MaxZones == 2
\* Most record sets one hosted zone holds.
MaxRecords == 1

\* ------------------------------------------------------- str literals
NoneVal == <<"None">>
ArnPrefix == <<"a","r","n",":">>
ArnAws == <<"a","r","n",":","a","w","s",":">>
S3Scheme == <<"s","3",":","/","/">>
Ec2 == <<"e","c","2">>
Rds == <<"r","d","s">>
S3 == <<"s","3">>
Sqs == <<"s","q","s">>
Route53 == <<"r","o","u","t","e","5","3">>
Unknown == <<"u","n","k","n","o","w","n">>
Instance == <<"i","n","s","t","a","n","c","e">>
Subnet == <<"s","u","b","n","e","t">>
Snapshot == <<"s","n","a","p","s","h","o","t">>
Volume == <<"v","o","l","u","m","e">>
Vpc == <<"v","p","c">>
Bucket == <<"b","u","c","k","e","t">>
Object == <<"o","b","j","e","c","t">>
HostedZone == <<"h","o","s","t","e","d","_","z","o","n","e">>
Record == <<"r","e","c","o","r","d">>
PrefixI == <<"i","-">>
PrefixSubnet == <<"s","u","b","n","e","t","-">>
PrefixSnap == <<"s","n","a","p","-">>
PrefixVol == <<"v","o","l","-">>
PrefixVpc == <<"v","p","c","-">>

\* ---------------------------------------------------- character classes
\* The patterns are str patterns, so \d, \s and \w are the Unicode classes of
\* the re module (Unicode 14.0.0, CPython 3.11).  A character up to U+00FF is
\* the one-character string of itself; a character above it is the string
\* CodePoint gives its number, "U+0663" for ARABIC-INDIC DIGIT THREE.
HexDigits == <<"0","1","2","3","4","5","6","7","8","9","A","B","C","D","E","F">>
RECURSIVE Hex(_)
Hex(n) == IF n < 16 THEN HexDigits[n + 1]
          ELSE Hex(n \div 16) \o HexDigits[(n % 16) + 1]
CodePoint(n) == "U+" \o (IF n < 4096 THEN "0" ELSE "") \o Hex(n)
\* The characters of the ranges <<first, last>> of code points.
Chars(ranges) == {CodePoint(n) : n \in UNION {r[1]..r[2] : r \in ranges}}
\* \d above U+00FF: the decimal digits of the other scripts.
DigitRanges ==
  {<<1632,1641>>, <<1776,1785>>, <<1984,1993>>, <<2406,2415>>,
   <<2534,2543>>, <<2662,2671>>, <<2790,2799>>, <<2918,2927>>,
   <<3046,3055>>, <<3174,3183>>, <<3302,3311>>, <<3430,3439>>,
   <<3558,3567>>, <<3664,3673>>, <<3792,3801>>, <<3872,3881>>,
   <<4160,4169>>, <<4240,4249>>, <<6112,6121>>, <<6160,6169>>,
   <<6470,6479>>, <<6608,6617>>, <<6784,6793>>, <<6800,6809>>,
   <<6992,7001>>, <<7088,7097>>, <<7232,7241>>, <<7248,7257>>,
   <<42528,42537>>, <<43216,43225>>, <<43264,43273>>, <<43472,43481>>,
   <<43504,43513>>, <<43600,43609>>, <<44016,44025>>, <<65296,65305>>,
   <<66720,66729>>, <<68912,68921>>, <<69734,69743>>, <<69872,69881>>,
   <<69942,69951>>, <<70096,70105>>, <<70384,70393>>, <<70736,70745>>,
   <<70864,70873>>, <<71248,71257>>, <<71360,71369>>, <<71472,71481>>,
   <<71904,71913>>, <<72016,72025>>, <<72784,72793>>, <<73040,73049>>,
   <<73120,73129>>, <<92768,92777>>, <<92864,92873>>, <<93008,93017>>,
   <<120782,120831>>, <<123200,123209>>, <<123632,123641>>,
   <<125264,125273>>, <<130032,130041>>}
\* \d of arn_matcher.
Digits ==
  {"0","1","2","3","4","5","6","7","8","9"} \cup Chars(DigitRanges)
\* \s up to U+00FF: space, \t \n \v \f \r, U+001C to U+001F, U+0085, U+00A0.
Latin1Spaces ==
  {"\t", "\n", "", "\f", "\r", "", "", "", "", " ", "", " "}
\* \s above U+00FF.
SpaceRanges ==
  {<<5760,5760>>, <<8192,8202>>, <<8232,8233>>, <<8239,8239>>,
   <<8287,8287>>, <<12288,12288>>}
\* \s of the re module; \S is its complement.
Spaces == Latin1Spaces \cup Chars(SpaceRanges)
\* \w up to U+00FF: the letters, the numerics and "_".
Latin1Word ==
  {"0", "1", "2", "3", "4", "5", "6", "7", "8", "9", "A", "B", "C", "D",
   "E", "F", "G", "H", "I", "J", "K", "L", "M", "N", "O", "P", "Q", "R",
   "S", "T", "U", "V", "W", "X", "Y", "Z", "_", "a", "b", "c", "d", "e",
   "f", "g", "h", "i", "j", "k", "l", "m", "n", "o", "p", "q", "r", "s",
   "t", "u", "v", "w", "x", "y", "z", "ª", "²", "³", "µ", "¹", "º", "¼",
   "½", "¾", "À", "Á", "Â", "Ã", "Ä", "Å", "Æ", "Ç", "È", "É", "Ê", "Ë",
   "Ì", "Í", "Î", "Ï", "Ð", "Ñ", "Ò", "Ó", "Ô", "Õ", "Ö", "Ø", "Ù", "Ú",
   "Û", "Ü", "Ý", "Þ", "ß", "à", "á", "â", "ã", "ä", "å", "æ", "ç", "è",
   "é", "ê", "ë", "ì", "í", "î", "ï", "ð", "ñ", "ò", "ó", "ô", "õ", "ö",
   "ø", "ù", "ú", "û", "ü", "ý", "þ", "ÿ"}
\* \w above U+00FF.
WordRanges ==
  {<<256,705>>, <<710,721>>, <<736,740>>, <<748,748>>, <<750,750>>,
   <<880,884>>, <<886,887>>, <<890,893>>, <<895,895>>, <<902,902>>,
   <<904,906>>, <<908,908>>, <<910,929>>, <<931,1013>>, <<1015,1153>>,
   <<1162,1327>>, <<1329,1366>>, <<1369,1369>>, <<1376,1416>>,
   <<1488,1514>>, <<1519,1522>>, <<1568,1610>>, <<1632,1641>>,
   <<1646,1647>>, <<1649,1747>>, <<1749,1749>>, <<1765,1766>>,
   <<1774,1788>>, <<1791,1791>>, <<1808,1808>>, <<1810,1839>>,
   <<1869,1957>>, <<1969,1969>>, <<1984,2026>>, <<2036,2037>>,
   <<2042,2042>>, <<2048,2069>>, <<2074,2074>>, <<2084,2084>>,
   <<2088,2088>>, <<2112,2136>>, <<2144,2154>>, <<2160,2183>>,
   <<2185,2190>>, <<2208,2249>>, <<2308,2361>>, <<2365,2365>>,
   <<2384,2384>>, <<2392,2401>>, <<2406,2415>>, <<2417,2432>>,
   <<2437,2444>>, <<2447,2448>>, <<2451,2472>>, <<2474,2480>>,
   <<2482,2482>>, <<2486,2489>>, <<2493,2493>>, <<2510,2510>>,
   <<2524,2525>>, <<2527,2529>>, <<2534,2545>>, <<2548,2553>>,
   <<2556,2556>>, <<2565,2570>>, <<2575,2576>>, <<2579,2600>>,
   <<2602,2608>>, <<2610,2611>>, <<2613,2614>>, <<2616,2617>>,
   <<2649,2652>>, <<2654,2654>>, <<2662,2671>>, <<2674,2676>>,
   <<2693,2701>>, <<2703,2705>>, <<2707,2728>>, <<2730,2736>>,
   <<2738,2739>>, <<2741,2745>>, <<2749,2749>>, <<2768,2768>>,
   <<2784,2785>>, <<2790,2799>>, <<2809,2809>>, <<2821,2828>>,
   <<2831,2832>>, <<2835,2856>>, <<2858,2864>>, <<2866,2867>>,
   <<2869,2873>>, <<2877,2877>>, <<2908,2909>>, <<2911,2913>>,
   <<2918,2927>>, <<2929,2935>>, <<2947,2947>>, <<2949,2954>>,
   <<2958,2960>>, <<2962,2965>>, <<2969,2970>>, <<2972,2972>>,
   <<2974,2975>>, <<2979,2980>>, <<2984,2986>>, <<2990,3001>>,
   <<3024,3024>>, <<3046,3058>>, <<3077,3084>>, <<3086,3088>>,
   <<3090,3112>>, <<3114,3129>>, <<3133,3133>>, <<3160,3162>>,
   <<3165,3165>>, <<3168,3169>>, <<3174,3183>>, <<3192,3198>>,
   <<3200,3200>>, <<3205,3212>>, <<3214,3216>>, <<3218,3240>>,
   <<3242,3251>>, <<3253,3257>>, <<3261,3261>>, <<3293,3294>>,
   <<3296,3297>>, <<3302,3311>>, <<3313,3314>>, <<3332,3340>>,
   <<3342,3344>>, <<3346,3386>>, <<3389,3389>>, <<3406,3406>>,
   <<3412,3414>>, <<3416,3425>>, <<3430,3448>>, <<3450,3455>>,
   <<3461,3478>>, <<3482,3505>>, <<3507,3515>>, <<3517,3517>>,
   <<3520,3526>>, <<3558,3567>>, <<3585,3632>>, <<3634,3635>>,
   <<3648,3654>>, <<3664,3673>>, <<3713,3714>>, <<3716,3716>>,
   <<3718,3722>>, <<3724,3747>>, <<3749,3749>>, <<3751,3760>>,
   <<3762,3763>>, <<3773,3773>>, <<3776,3780>>, <<3782,3782>>,
   <<3792,3801>>, <<3804,3807>>, <<3840,3840>>, <<3872,3891>>,
   <<3904,3911>>, <<3913,3948>>, <<3976,3980>>, <<4096,4138>>,
   <<4159,4169>>, <<4176,4181>>, <<4186,4189>>, <<4193,4193>>,
   <<4197,4198>>, <<4206,4208>>, <<4213,4225>>, <<4238,4238>>,
   <<4240,4249>>, <<4256,4293>>, <<4295,4295>>, <<4301,4301>>,
   <<4304,4346>>, <<4348,4680>>, <<4682,4685>>, <<4688,4694>>,
   <<4696,4696>>, <<4698,4701>>, <<4704,4744>>, <<4746,4749>>,
   <<4752,4784>>, <<4786,4789>>, <<4792,4798>>, <<4800,4800>>,
   <<4802,4805>>, <<4808,4822>>, <<4824,4880>>, <<4882,4885>>,
   <<4888,4954>>, <<4969,4988>>, <<4992,5007>>, <<5024,5109>>,
   <<5112,5117>>, <<5121,5740>>, <<5743,5759>>, <<5761,5786>>,
   <<5792,5866>>, <<5870,5880>>, <<5888,5905>>, <<5919,5937>>,
   <<5952,5969>>, <<5984,5996>>, <<5998,6000>>, <<6016,6067>>,
   <<6103,6103>>, <<6108,6108>>, <<6112,6121>>, <<6128,6137>>,
   <<6160,6169>>, <<6176,6264>>, <<6272,6276>>, <<6279,6312>>,
   <<6314,6314>>, <<6320,6389>>, <<6400,6430>>, <<6470,6509>>,
   <<6512,6516>>, <<6528,6571>>, <<6576,6601>>, <<6608,6618>>,
   <<6656,6678>>, <<6688,6740>>, <<6784,6793>>, <<6800,6809>>,
   <<6823,6823>>, <<6917,6963>>, <<6981,6988>>, <<6992,7001>>,
   <<7043,7072>>, <<7086,7141>>, <<7168,7203>>, <<7232,7241>>,
   <<7245,7293>>, <<7296,7304>>, <<7312,7354>>, <<7357,7359>>,
   <<7401,7404>>, <<7406,7411>>, <<7413,7414>>, <<7418,7418>>,
   <<7424,7615>>, <<7680,7957>>, <<7960,7965>>, <<7968,8005>>,
   <<8008,8013>>, <<8016,8023>>, <<8025,8025>>, <<8027,8027>>,
   <<8029,8029>>, <<8031,8061>>, <<8064,8116>>, <<8118,8124>>,
   <<8126,8126>>, <<8130,8132>>, <<8134,8140>>, <<8144,8147>>,
   <<8150,8155>>, <<8160,8172>>, <<8178,8180>>, <<8182,8188>>,
   <<8304,8305>>, <<8308,8313>>, <<8319,8329>>, <<8336,8348>>,
   <<8450,8450>>, <<8455,8455>>, <<8458,8467>>, <<8469,8469>>,
   <<8473,8477>>, <<8484,8484>>, <<8486,8486>>, <<8488,8488>>,
   <<8490,8493>>, <<8495,8505>>, <<8508,8511>>, <<8517,8521>>,
   <<8526,8526>>, <<8528,8585>>, <<9312,9371>>, <<9450,9471>>,
   <<10102,10131>>, <<11264,11492>>, <<11499,11502>>, <<11506,11507>>,
   <<11517,11517>>, <<11520,11557>>, <<11559,11559>>, <<11565,11565>>,
   <<11568,11623>>, <<11631,11631>>, <<11648,11670>>, <<11680,11686>>,
   <<11688,11694>>, <<11696,11702>>, <<11704,11710>>, <<11712,11718>>,
   <<11720,11726>>, <<11728,11734>>, <<11736,11742>>, <<11823,11823>>,
   <<12293,12295>>, <<12321,12329>>, <<12337,12341>>, <<12344,12348>>,
   <<12353,12438>>, <<12445,12447>>, <<12449,12538>>, <<12540,12543>>,
   <<12549,12591>>, <<12593,12686>>, <<12690,12693>>, <<12704,12735>>,
   <<12784,12799>>, <<12832,12841>>, <<12872,12879>>, <<12881,12895>>,
   <<12928,12937>>, <<12977,12991>>, <<13312,19903>>, <<19968,42124>>,
   <<42192,42237>>, <<42240,42508>>, <<42512,42539>>, <<42560,42606>>,
   <<42623,42653>>, <<42656,42735>>, <<42775,42783>>, <<42786,42888>>,
   <<42891,42954>>, <<42960,42961>>, <<42963,42963>>, <<42965,42969>>,
   <<42994,43009>>, <<43011,43013>>, <<43015,43018>>, <<43020,43042>>,
   <<43056,43061>>, <<43072,43123>>, <<43138,43187>>, <<43216,43225>>,
   <<43250,43255>>, <<43259,43259>>, <<43261,43262>>, <<43264,43301>>,
   <<43312,43334>>, <<43360,43388>>, <<43396,43442>>, <<43471,43481>>,
   <<43488,43492>>, <<43494,43518>>, <<43520,43560>>, <<43584,43586>>,
   <<43588,43595>>, <<43600,43609>>, <<43616,43638>>, <<43642,43642>>,
   <<43646,43695>>, <<43697,43697>>, <<43701,43702>>, <<43705,43709>>,
   <<43712,43712>>, <<43714,43714>>, <<43739,43741>>, <<43744,43754>>,
   <<43762,43764>>, <<43777,43782>>, <<43785,43790>>, <<43793,43798>>,
   <<43808,43814>>, <<43816,43822>>, <<43824,43866>>, <<43868,43881>>,
   <<43888,44002>>, <<44016,44025>>, <<44032,55203>>, <<55216,55238>>,
   <<55243,55291>>, <<63744,64109>>, <<64112,64217>>, <<64256,64262>>,
   <<64275,64279>>, <<64285,64285>>, <<64287,64296>>, <<64298,64310>>,
   <<64312,64316>>, <<64318,64318>>, <<64320,64321>>, <<64323,64324>>,
   <<64326,64433>>, <<64467,64829>>, <<64848,64911>>, <<64914,64967>>,
   <<65008,65019>>, <<65136,65140>>, <<65142,65276>>, <<65296,65305>>,
   <<65313,65338>>, <<65345,65370>>, <<65382,65470>>, <<65474,65479>>,
   <<65482,65487>>, <<65490,65495>>, <<65498,65500>>, <<65536,65547>>,
   <<65549,65574>>, <<65576,65594>>, <<65596,65597>>, <<65599,65613>>,
   <<65616,65629>>, <<65664,65786>>, <<65799,65843>>, <<65856,65912>>,
   <<65930,65931>>, <<66176,66204>>, <<66208,66256>>, <<66273,66299>>,
   <<66304,66339>>, <<66349,66378>>, <<66384,66421>>, <<66432,66461>>,
   <<66464,66499>>, <<66504,66511>>, <<66513,66517>>, <<66560,66717>>,
   <<66720,66729>>, <<66736,66771>>, <<66776,66811>>, <<66816,66855>>,
   <<66864,66915>>, <<66928,66938>>, <<66940,66954>>, <<66956,66962>>,
   <<66964,66965>>, <<66967,66977>>, <<66979,66993>>, <<66995,67001>>,
   <<67003,67004>>, <<67072,67382>>, <<67392,67413>>, <<67424,67431>>,
   <<67456,67461>>, <<67463,67504>>, <<67506,67514>>, <<67584,67589>>,
   <<67592,67592>>, <<67594,67637>>, <<67639,67640>>, <<67644,67644>>,
   <<67647,67669>>, <<67672,67702>>, <<67705,67742>>, <<67751,67759>>,
   <<67808,67826>>, <<67828,67829>>, <<67835,67867>>, <<67872,67897>>,
   <<67968,68023>>, <<68028,68047>>, <<68050,68096>>, <<68112,68115>>,
   <<68117,68119>>, <<68121,68149>>, <<68160,68168>>, <<68192,68222>>,
   <<68224,68255>>, <<68288,68295>>, <<68297,68324>>, <<68331,68335>>,
   <<68352,68405>>, <<68416,68437>>, <<68440,68466>>, <<68472,68497>>,
   <<68521,68527>>, <<68608,68680>>, <<68736,68786>>, <<68800,68850>>,
   <<68858,68899>>, <<68912,68921>>, <<69216,69246>>, <<69248,69289>>,
   <<69296,69297>>, <<69376,69415>>, <<69424,69445>>, <<69457,69460>>,
   <<69488,69505>>, <<69552,69579>>, <<69600,69622>>, <<69635,69687>>,
   <<69714,69743>>, <<69745,69746>>, <<69749,69749>>, <<69763,69807>>,
   <<69840,69864>>, <<69872,69881>>, <<69891,69926>>, <<69942,69951>>,
   <<69956,69956>>, <<69959,69959>>, <<69968,70002>>, <<70006,70006>>,
   <<70019,70066>>, <<70081,70084>>, <<70096,70106>>, <<70108,70108>>,
   <<70113,70132>>, <<70144,70161>>, <<70163,70187>>, <<70272,70278>>,
   <<70280,70280>>, <<70282,70285>>, <<70287,70301>>, <<70303,70312>>,
   <<70320,70366>>, <<70384,70393>>, <<70405,70412>>, <<70415,70416>>,
   <<70419,70440>>, <<70442,70448>>, <<70450,70451>>, <<70453,70457>>,
   <<70461,70461>>, <<70480,70480>>, <<70493,70497>>, <<70656,70708>>,
   <<70727,70730>>, <<70736,70745>>, <<70751,70753>>, <<70784,70831>>,
   <<70852,70853>>, <<70855,70855>>, <<70864,70873>>, <<71040,71086>>,
   <<71128,71131>>, <<71168,71215>>, <<71236,71236>>, <<71248,71257>>,
   <<71296,71338>>, <<71352,71352>>, <<71360,71369>>, <<71424,71450>>,
   <<71472,71483>>, <<71488,71494>>, <<71680,71723>>, <<71840,71922>>,
   <<71935,71942>>, <<71945,71945>>, <<71948,71955>>, <<71957,71958>>,
   <<71960,71983>>, <<71999,71999>>, <<72001,72001>>, <<72016,72025>>,
   <<72096,72103>>, <<72106,72144>>, <<72161,72161>>, <<72163,72163>>,
   <<72192,72192>>, <<72203,72242>>, <<72250,72250>>, <<72272,72272>>,
   <<72284,72329>>, <<72349,72349>>, <<72368,72440>>, <<72704,72712>>,
   <<72714,72750>>, <<72768,72768>>, <<72784,72812>>, <<72818,72847>>,
   <<72960,72966>>, <<72968,72969>>, <<72971,73008>>, <<73030,73030>>,
   <<73040,73049>>, <<73056,73061>>, <<73063,73064>>, <<73066,73097>>,
   <<73112,73112>>, <<73120,73129>>, <<73440,73458>>, <<73648,73648>>,
   <<73664,73684>>, <<73728,74649>>, <<74752,74862>>, <<74880,75075>>,
   <<77712,77808>>, <<77824,78894>>, <<82944,83526>>, <<92160,92728>>,
   <<92736,92766>>, <<92768,92777>>, <<92784,92862>>, <<92864,92873>>,
   <<92880,92909>>, <<92928,92975>>, <<92992,92995>>, <<93008,93017>>,
   <<93019,93025>>, <<93027,93047>>, <<93053,93071>>, <<93760,93846>>,
   <<93952,94026>>, <<94032,94032>>, <<94099,94111>>, <<94176,94177>>,
   <<94179,94179>>, <<94208,100343>>, <<100352,101589>>, <<101632,101640>>,
   <<110576,110579>>, <<110581,110587>>, <<110589,110590>>,
   <<110592,110882>>, <<110928,110930>>, <<110948,110951>>,
   <<110960,111355>>, <<113664,113770>>, <<113776,113788>>,
   <<113792,113800>>, <<113808,113817>>, <<119520,119539>>,
   <<119648,119672>>, <<119808,119892>>, <<119894,119964>>,
   <<119966,119967>>, <<119970,119970>>, <<119973,119974>>,
   <<119977,119980>>, <<119982,119993>>, <<119995,119995>>,
   <<119997,120003>>, <<120005,120069>>, <<120071,120074>>,
   <<120077,120084>>, <<120086,120092>>, <<120094,120121>>,
   <<120123,120126>>, <<120128,120132>>, <<120134,120134>>,
   <<120138,120144>>, <<120146,120485>>, <<120488,120512>>,
   <<120514,120538>>, <<120540,120570>>, <<120572,120596>>,
   <<120598,120628>>, <<120630,120654>>, <<120656,120686>>,
   <<120688,120712>>, <<120714,120744>>, <<120746,120770>>,
   <<120772,120779>>, <<120782,120831>>, <<122624,122654>>,
   <<123136,123180>>, <<123191,123197>>, <<123200,123209>>,
   <<123214,123214>>, <<123536,123565>>, <<123584,123627>>,
   <<123632,123641>>, <<124896,124902>>, <<124904,124907>>,
   <<124909,124910>>, <<124912,124926>>, <<124928,125124>>,
   <<125127,125135>>, <<125184,125251>>, <<125259,125259>>,
   <<125264,125273>>, <<126065,126123>>, <<126125,126127>>,
   <<126129,126132>>, <<126209,126253>>, <<126255,126269>>,
   <<126464,126467>>, <<126469,126495>>, <<126497,126498>>,
   <<126500,126500>>, <<126503,126503>>, <<126505,126514>>,
   <<126516,126519>>, <<126521,126521>>, <<126523,126523>>,
   <<126530,126530>>, <<126535,126535>>, <<126537,126537>>,
   <<126539,126539>>, <<126541,126543>>, <<126545,126546>>,
   <<126548,126548>>, <<126551,126551>>, <<126553,126553>>,
   <<126555,126555>>, <<126557,126557>>, <<126559,126559>>,
   <<126561,126562>>, <<126564,126564>>, <<126567,126570>>,
   <<126572,126578>>, <<126580,126583>>, <<126585,126588>>,
   <<126590,126590>>, <<126592,126601>>, <<126603,126619>>,
   <<126625,126627>>, <<126629,126633>>, <<126635,126651>>,
   <<127232,127244>>, <<130032,130041>>, <<131072,173791>>,
   <<173824,177976>>, <<177984,178205>>, <<178208,183969>>,
   <<183984,191456>>, <<194560,195101>>, <<196608,201546>>}
\* \w of the DNS-name pattern.
Word == Latin1Word \cup Chars(WordRanges)
\* [-\w] of the DNS-name pattern.
HyphenWord == Word \cup {"-"}

\* ------------------------------------------------------- str operations
StartsWith(s, p) == Len(s) >= Len(p) /\ SubSeq(s, 1, Len(p)) = p
EndsWith(s, p) == Len(s) >= Len(p) /\ SubSeq(s, Len(s) - Len(p) + 1, Len(s)) = p
Drop(s, n) == SubSeq(s, n + 1, Len(s))
\* Index of the first c in s, or Len(s) + 1 when there is none.
Find(s, c) ==
  IF \E i \in 1..Len(s) : s[i] = c
  THEN CHOOSE i \in 1..Len(s) : s[i] = c /\ \A j \in 1..(i - 1) : s[j] # c
  ELSE Len(s) + 1
\* str.split(sep) for a one-character sep: the list of the parts.
RECURSIVE Split(_, _)
Split(s, sep) ==
  LET i == Find(s, sep)
  IN IF i > Len(s) THEN <<s>>
     ELSE <<SubSeq(s, 1, i - 1)>> \o Split(Drop(s, i), sep)
\* The $ of a pattern without re.MULTILINE at position e (characters consumed):
\* the end of the string, or just before a newline that ends it.
AtDollar(s, e) == e = Len(s) \/ (e = Len(s) - 1 /\ s[Len(s)] = "\n")

\* ------------------------------------------------------------ parse_arn
\* The groups of arn_matcher on arn, or matched = FALSE.  Every group but the
\* last ends at the next ":", which it cannot hold, so the match is unique.
ArnMatch(arn) ==
  LET noMatch == [matched |-> FALSE]
      a1 == Drop(arn, Len(ArnAws))
      i1 == Find(a1, ":")
      a2 == Drop(a1, i1)
      i2 == Find(a2, ":")
      a3 == Drop(a2, i2)
      i3 == Find(a3, ":")
      res == Drop(a3, i3)
      \* \S+ then $: the rest, less a newline that ends it
      body == IF Len(res) > 0 /\ res[Len(res)] = "\n"
              THEN SubSeq(res, 1, Len(res) - 1) ELSE res
  IN IF ~StartsWith(arn, ArnAws) THEN noMatch
     ELSE IF i1 > Len(a1) \/ i1 = 1 THEN noMatch
     ELSE IF i2 > Len(a2) THEN noMatch
     ELSE IF i3 > Len(a3) \/ \E j \in 1..(i3 - 1) : a3[j] \notin Digits THEN noMatch
     ELSE IF body = <<>> \/ \E j \in 1..Len(body) : body[j] \in Spaces THEN noMatch
     ELSE [matched |-> TRUE,
           service |-> SubSeq(a1, 1, i1 - 1),
           region |-> SubSeq(a2, 1, i2 - 1),
           account |-> SubSeq(a3, 1, i3 - 1),
           resource |-> body]

\* The two-name tuple assignment from resource.split(sep): it raises ValueError
\* unless the split gives exactly two parts.
SplitPair(type, res, sep) ==
  LET parts == Split(res, sep)
  IN IF Len(parts) = 2
     THEN [ok |-> TRUE,
           resource |-> [type |-> type, sub_type |-> parts[1], name |-> parts[2]]]
     ELSE [ok |-> FALSE, error |-> "ValueError"]

parse_arn(arn) ==
  LET m == ArnMatch(arn)
  IN IF ~m.matched THEN [ok |-> FALSE, error |-> "ValueError"]
     ELSE IF m.service = Ec2 THEN SplitPair(m.service, m.resource, "/")
     ELSE IF m.service = Rds THEN SplitPair(m.service, m.resource, ":")
     ELSE IF m.service = S3
       THEN [ok |-> TRUE,
             resource |-> [type |-> m.service, sub_type |-> Bucket, name |-> m.resource]]
     ELSE [ok |-> TRUE,
           resource |-> [type |-> m.service, sub_type |-> NoneVal, name |-> m.resource]]

\* --------------------------------------------------------- parse_s3_url
\* The ways s3://(?P<bucket>[^/]+)/?(?P<key>\S+)?$ matches url: b characters of
\* bucket, s slashes (0 or 1), k characters of key (0: the group is absent).
S3Matches(url) ==
  LET rest == Drop(url, Len(S3Scheme))
      n == Len(rest)
  IN IF ~StartsWith(url, S3Scheme) THEN {}
     ELSE {m \in [b : 1..n, s : 0..1, k : 0..n] :
             /\ m.b + m.s + m.k <= n
             /\ \A j \in 1..m.b : rest[j] # "/"
             /\ m.s = 1 => rest[m.b + 1] = "/"
             /\ \A j \in (m.b + m.s + 1)..(m.b + m.s + m.k) : rest[j] \notin Spaces
             /\ AtDollar(rest, m.b + m.s + m.k)}

\* The backtracking order of the three greedy quantifiers: the longest bucket
\* first, then the slash taken, then the longest key.
S3Before(m1, m2) ==
  \/ m1.b > m2.b
  \/ m1.b = m2.b /\ m1.s > m2.s
  \/ m1.b = m2.b /\ m1.s = m2.s /\ m1.k >= m2.k

parse_s3_url(url) ==
  LET ms == S3Matches(url)
      rest == Drop(url, Len(S3Scheme))
  IN IF ms = {}
     THEN \* s3_match is None: s3_match.groupdict() raises
          [ok |-> FALSE, error |-> "AttributeError"]
     ELSE LET m == CHOOSE x \in ms : \A y \in ms : S3Before(x, y)
              bucket == SubSeq(rest, 1, m.b)
              key == SubSeq(rest, m.b + m.s + 1, m.b + m.s + m.k)
          IN IF m.k = 0
             THEN [ok |-> TRUE,
                   resource |-> [type |-> S3, sub_type |-> Bucket, name |-> bucket]]
             ELSE [ok |-> TRUE,
                   resource |-> [type |-> S3, sub_type |-> Object,
                                 name |-> <<bucket, key>>]]

\* ------------------------------------------ the bare-identifier patterns
\* re.match(r"[-\w]+\.[-\w]+[\.]*", identifier): anchored at the start only.
LooksLikeDnsName(identifier) ==
  \E i \in 1..Len(identifier) :
    /\ \A j \in 1..i : identifier[j] \in HyphenWord
    /\ i + 2 <= Len(identifier)
    /\ identifier[i + 1] = "."
    /\ identifier[i + 2] \in HyphenWord

\* PrefixSubType with a misspelt tag in the snap- branch.
PrefixSubTypeTypo(identifier) ==
  IF StartsWith(identifier, PrefixI) THEN Instance
  ELSE IF StartsWith(identifier, PrefixSubnet) THEN Subnet
  ELSE IF StartsWith(identifier, PrefixSnap) THEN <<"s","n","a","p">>
  ELSE IF StartsWith(identifier, PrefixVol) THEN Volume
  ELSE IF StartsWith(identifier, PrefixVpc) THEN Vpc
  ELSE NoneVal

\* The if/elif ladder of prefixes: the sub_type of the first prefix that
\* matches, NoneVal when none does.
PrefixSubType(identifier) ==
  IF StartsWith(identifier, PrefixI) THEN Instance
  ELSE IF StartsWith(identifier, PrefixSubnet) THEN Subnet
  ELSE IF StartsWith(identifier, PrefixSnap) THEN Snapshot
  ELSE IF StartsWith(identifier, PrefixVol) THEN Volume
  ELSE IF StartsWith(identifier, PrefixVpc) THEN Vpc
  ELSE NoneVal

\* BareBranch with the DNS-name pattern tested before the prefixes.
BareBranchDnsFirst(identifier) ==
  IF LooksLikeDnsName(identifier) THEN "dns"
  ELSE IF PrefixSubType(identifier) # NoneVal THEN "prefix"
  ELSE "none"

\* The branch the else part of determine_resource_type takes: one of the five
\* prefixes, else the DNS-name pattern, else none.
BareBranch(identifier) ==
  IF PrefixSubType(identifier) # NoneVal THEN "prefix"
  ELSE IF LooksLikeDnsName(identifier) THEN "dns"
  ELSE "none"

\* --------------------------------------------------- Route 53 resolution
\* name if name.endswith(".") else name + "."
DottedName(name) == IF EndsWith(name, <<".">>) THEN name ELSE name \o <<".">>

\* The dict comprehension over all_zones as the list of its items, in dict
\* order: a name keeps the place of its first zone and the Id of its last.
RECURSIVE MatchedZones(_, _)
MatchedZones(all_zones, dotted_name) ==
  IF all_zones = <<>> THEN <<>>
  ELSE LET n == Len(all_zones)
           zone == all_zones[n]
           before == MatchedZones(SubSeq(all_zones, 1, n - 1), dotted_name)
       IN IF ~EndsWith(dotted_name, zone.Name) THEN before
          ELSE IF \E i \in 1..Len(before) : before[i].Name = zone.Name
            THEN [i \in 1..Len(before) |->
                    IF before[i].Name = zone.Name THEN zone ELSE before[i]]
          ELSE Append(before, zone)

\* matched_zones[dotted_name]; asked only when the key is there.
ZoneIdOf(matched, dotted_name) ==
  LET i == CHOOSE i \in 1..Len(matched) : matched[i].Name = dotted_name
  IN matched[i].Id

\* page_iterator.search("ResourceRecordSets[?Name==`dotted_name`]"): the
\* record sets of the zone with that name, in the order of the listing.
FilteredRecords(record_sets, dotted_name) ==
  SelectSeq(record_sets, LAMBDA rec : rec.Name = dotted_name)

\* The descriptor of a hosted zone and of a record, as
\* possible_route53_resource returns them.
HostedZoneResource(zone_id) ==
  [type |-> Route53, sub_type |-> HostedZone, name |-> zone_id]
RecordResource(name, data) ==
  [type |-> Route53, sub_type |-> Record, name |-> name, data |-> data]

\* ------------------------------------------------------ describe: ec2
\* filtered_attributes of describe_ec2_resource.
FilteredAttributes ==
  {"InstanceType", "PrivateIpAddress", "SecurityGroups", "SubnetId", "VpcId"}

\* FilterInstance without its filter.
FilterInstanceUnfiltered(instance) == instance

\* { n: instance[n] for n in instance if n in filtered_attributes }
FilterInstance(instance) ==
  [n \in DOMAIN instance \cap FilteredAttributes |-> instance[n]]

\* data = {} of describe_ec2_resource; {} of bucket["tags"].
EmptyDict == <<>>

\* The lookup describe_ec2_resource makes for a sub_type, "none" when the
\* if/elif ladder has no branch for it.
Ec2Lookup(sub_type) ==
  IF sub_type = Instance THEN "ec2.describe_instances"
  ELSE IF sub_type = Subnet THEN "ec2.describe_subnets"
  ELSE IF sub_type = Vpc THEN "ec2.describe_vpcs"
  ELSE IF sub_type = Volume THEN "ec2.describe_volumes"
  ELSE IF sub_type = Snapshot THEN "ec2.describe_snapshots"
  ELSE "none"

\* The value describe_ec2_resource returns when its lookup answered item.
Ec2Data(r, cli_full, item) ==
  IF Ec2Lookup(r.sub_type) = "none" THEN EmptyDict
  ELSE IF r.sub_type = Instance /\ ~cli_full THEN FilterInstance(item)
  ELSE item

\* except botocore.exceptions.ClientError around get_bucket_tagging.
TaggingCaught(failure) == failure.exception = "ClientError"

\* ShouldDescribe without the test of args.dry_run.
ShouldDescribeAlways(args_dry_run) == TRUE

\* if not args.dry_run: describe_resource(resource, args)
ShouldDescribe(args_dry_run) == ~args_dry_run

\* if args.verbose or args.dry_run: print(f"Resource : ...")
ShouldPrintResource(args_verbose, args_dry_run) == args_verbose \/ args_dry_run

\* ------------------------------------------------------------- inputs
\* Identifiers are a head followed by a tail of at most MaxTail characters,
\* among them a letter outside ASCII.
Alphabet == {"a", "é", "1", ":", "/", ".", " "}
Tails == UNION {[1..n -> Alphabet] : n \in 0..MaxTail}
Heads ==
  { <<>>,
    <<"1",".">>,
    ArnPrefix,
    ArnAws,
    ArnAws \o Ec2 \o <<":",":">>,
    ArnAws \o Ec2 \o <<":","a",":","1",":">>,
    ArnAws \o Ec2 \o <<":","a",":","1",":">> \o Instance \o <<"/">>,
    ArnAws \o Ec2 \o <<":","a",":","1",":">> \o Bucket \o <<"/">>,
    ArnAws \o Rds \o <<":","a",":","1",":">>,
    ArnAws \o S3 \o <<":",":",":">>,
    ArnAws \o Sqs \o <<":","a",":","1",":">>,
    ArnAws \o Route53 \o <<":",":",":">>,
    S3Scheme,
    S3Scheme \o <<"a","/">>,
    PrefixI, PrefixSubnet, PrefixSnap, PrefixVol, PrefixVpc }
Identifiers == {h \o t : h \in Heads, t \in Tails}

\* What list_hosted_zones can answer: at most MaxZones zones, the i-th with
\* the Id Zi; two zones may bear one name (a public and a private zone).
ZoneNames == { <<"a",".">>, <<"a",".","a",".">> }
ZoneDigits == <<"1","2","3","4","5","6","7","8","9">>
ZoneId(i) == <<"Z", ZoneDigits[i]>>
ZoneListings ==
  UNION { { [i \in 1..n |-> [Name |-> names[i], Id |-> ZoneId(i)]] :
              names \in [1..n -> ZoneNames] } : n \in 0..MaxZones }

\* What list_resource_record_sets can answer for one zone.
RecordSetUniverse ==
  { [Name |-> <<"1",".","a",".">>, Type |-> "A"],
    [Name |-> <<"1",".","a",".">>, Type |-> "TXT"],
    [Name |-> <<"1",".","a",".","a",".">>, Type |-> "A"] }
RecordSetListings == UNION {[1..n -> RecordSetUniverse] : n \in 0..MaxRecords}

\* What the ec2 lookups can answer.  An instance always has its InstanceId,
\* InstanceType and SecurityGroups; a terminated one has no PrivateIpAddress,
\* SubnetId or VpcId, and further keys come and go with the API version.
RequiredKeys == {"InstanceId", "InstanceType", "SecurityGroups"}
OptionalKeys == {"PrivateIpAddress", "SubnetId", "VpcId", "StateReason"}
InstanceItems ==
  {[k \in RequiredKeys \cup ks |-> "value"] : ks \in SUBSET OptionalKeys}
OtherItems == {[State |-> "available"]}
Ec2Items(sub_type) == IF sub_type = Instance THEN InstanceItems ELSE OtherItems

\* How a call can fail: a ClientError with its code, or an error of botocore
\* that is no ClientError.
ClientFailures ==
  { [exception |-> "ClientError", code |-> c] :
      c \in {"NotFound", "AccessDenied", "Throttling"} }
OtherFailures == { [exception |-> "EndpointConnectionError", code |-> "none"] }
Failures == ClientFailures \cup OtherFailures
NoFailure == [exception |-> "none", code |-> "none"]
Outcomes == {NoFailure} \cup Failures

\* ---------------------------------------------------------------- state
VARIABLES
  identifier,   \* args.identifier
  dry_run,      \* args.dry_run
  full,         \* args.full
  verbose,      \* args.verbose
  pc,           \* where main is
  resource,     \* resource of determine_resource_type, then of main
  all_zones,    \* the HostedZones of list_hosted_zones
  pending,      \* the items of matched_zones the for loop has yet to visit
  record_sets,  \* the ResourceRecordSets of the zone visited last
  answer,       \* the item the ec2 lookup answered
  calls,        \* the API calls issued so far, in order, each with its outcome
  stdout,       \* what was printed
  exit_status,  \* the exit status of the process, NotExited while it runs
  error         \* the exception that ended the run, "none" otherwise

vars == <<identifier, dry_run, full, verbose, pc, resource, all_zones, pending,
          record_sets, answer, calls, stdout, exit_status, error>>
args == <<identifier, dry_run, full, verbose>>

NotExited == -1
\* The dict determine_resource_type starts from: its second key is "sub-type",
\* the branches assign "sub_type".
NoResource == ("type" :> Unknown) @@ ("sub-type" :> NoneVal) @@ ("name" :> Unknown)
\* None where resource is assigned the answer of possible_route53_resource: a
\* function on the one key "None", so that it has no key of a descriptor.
NoneResource == [None |-> NoneVal]
\* resource["name"] = identifier, the first statement of the else branch.
Named(name) == [NoResource EXCEPT !.name = name]
Call(api, arg, outcome) == [api |-> api, arg |-> arg, outcome |-> outcome]

Init ==
  /\ identifier \in Identifiers
  /\ dry_run \in BOOLEAN
  /\ full \in BOOLEAN
  /\ verbose \in BOOLEAN
  /\ pc = "start"
  /\ resource = NoResource
  /\ all_zones = <<>>
  /\ pending = <<>>
  /\ record_sets = <<>>
  /\ answer = EmptyDict
  /\ calls = <<>>
  /\ stdout = <<>>
  /\ exit_status = NotExited
  /\ error = "none"

\* sys.exit(status), or the return of main (status 0).
Exit(status) ==
  /\ pc' = "done"
  /\ exit_status' = status
  /\ error' = "none"

\* An exception nothing catches: the interpreter prints the traceback and the
\* process ends with status 1.
Raise(exception) ==
  /\ pc' = "done"
  /\ exit_status' = 1
  /\ error' = exception

\* determine_resource_type returns resource to main.
Return(r) ==
  /\ resource' = r
  /\ pc' = "classified"
  /\ UNCHANGED <<exit_status, error>>

\* print(...) if args.verbose else None
Diagnostic(args_verbose, text) ==
  IF args_verbose THEN <<[kind |-> "diagnostic", text |-> text]>> ELSE <<>>

\* main, lines 350-355: the pre-flight iam.get_account_summary().
CredentialCheck ==
  /\ pc = "start"
  /\ \E outcome \in Outcomes :
       /\ calls' = Append(calls, Call("iam.get_account_summary", <<>>, outcome))
       /\ IF outcome = NoFailure
          THEN pc' = "classify" /\ UNCHANGED <<exit_status, error>>
          ELSE IF outcome.exception = "ClientError" THEN Exit(1)
          ELSE Raise(outcome.exception)
  /\ UNCHANGED <<args, resource, all_zones, pending, record_sets, answer, stdout>>

\* determine_resource_type for an identifier that starts with "arn:".
ClassifyArn ==
  /\ pc = "classify"
  /\ StartsWith(identifier, ArnPrefix)
  /\ LET parsed == parse_arn(identifier)
     IN IF parsed.ok THEN Return(parsed.resource)
        ELSE Raise(parsed.error) /\ UNCHANGED resource
  /\ stdout' = stdout \o Diagnostic(verbose, "Parsing") \o Diagnostic(verbose, "It's an ARN.")
  /\ UNCHANGED <<args, all_zones, pending, record_sets, answer, calls>>

\* determine_resource_type for an identifier that starts with "s3://".
ClassifyS3Url ==
  /\ pc = "classify"
  /\ ~StartsWith(identifier, ArnPrefix)
  /\ StartsWith(identifier, S3Scheme)
  /\ LET parsed == parse_s3_url(identifier)
     IN IF parsed.ok THEN Return(parsed.resource)
        ELSE Raise(parsed.error) /\ UNCHANGED resource
  /\ stdout' = stdout \o Diagnostic(verbose, "Parsing") \o Diagnostic(verbose, "It's an s3 URL.")
  /\ UNCHANGED <<args, all_zones, pending, record_sets, answer, calls>>

\* determine_resource_type, the else branch, but for the Route 53 lookup: a
\* prefix decides, or nothing matches and the run ends with sys.exit(2).
ClassifyBare ==
  /\ pc = "classify"
  /\ ~StartsWith(identifier, ArnPrefix)
  /\ ~StartsWith(identifier, S3Scheme)
  /\ BareBranch(identifier) # "dns"
  /\ IF BareBranch(identifier) = "prefix"
     THEN Return([Named(identifier) EXCEPT !.type = Ec2]
                 @@ [sub_type |-> PrefixSubType(identifier)])
     ELSE Exit(2) /\ resource' = Named(identifier)
  /\ stdout' = stdout \o Diagnostic(verbose, "Parsing")
  /\ UNCHANGED <<args, all_zones, pending, record_sets, answer, calls>>

\* possible_route53_resource up to its first record listing: the zones are
\* listed and matched; a zone of that very name is the answer, no candidate
\* zone is None (sys.exit(2) in determine_resource_type).
ListHostedZones ==
  /\ pc = "classify"
  /\ ~StartsWith(identifier, ArnPrefix)
  /\ ~StartsWith(identifier, S3Scheme)
  /\ BareBranch(identifier) = "dns"
  /\ LET list(outcome) == Call("route53.list_hosted_zones", <<>>, outcome)
     IN \/ \E failure \in Failures :
             /\ calls' = Append(calls, list(failure))
             /\ Raise(failure.exception)
             /\ stdout' = stdout \o Diagnostic(verbose, "Parsing")
             /\ resource' = Named(identifier)
             /\ UNCHANGED <<all_zones, pending>>
        \/ \E zones \in ZoneListings :
             LET dotted_name == DottedName(identifier)
                 matched_zones == MatchedZones(zones, dotted_name)
             IN /\ calls' = Append(calls, list(NoFailure))
                /\ all_zones' = zones
                /\ IF \E i \in 1..Len(matched_zones) : matched_zones[i].Name = dotted_name
                   THEN /\ Return(HostedZoneResource(ZoneIdOf(matched_zones, dotted_name)))
                        /\ pending' = <<>>
                        /\ stdout' = stdout \o Diagnostic(verbose, "Parsing")
                                            \o Diagnostic(verbose, "Doing a zone lookup")
                   ELSE IF Len(matched_zones) > 0
                   THEN /\ pc' = "r53_search"
                        /\ pending' = matched_zones
                        /\ stdout' = stdout \o Diagnostic(verbose, "Parsing")
                        /\ resource' = Named(identifier)
                        /\ UNCHANGED <<exit_status, error>>
                   ELSE /\ Exit(2)
                        /\ pending' = <<>>
                        /\ stdout' = stdout \o Diagnostic(verbose, "Parsing")
                        /\ resource' = NoneResource
  /\ UNCHANGED <<args, record_sets, answer>>

\* One turn of the for loop of possible_route53_resource: the record sets of
\* the next matched zone are listed; the first with the name is returned, and
\* when the loop ends without one the function returns None (sys.exit(2)).
ListResourceRecordSets ==
  /\ pc = "r53_search"
  /\ LET list(outcome) ==
           Call("route53.list_resource_record_sets", Head(pending).Id, outcome)
     IN \/ \E failure \in Failures :
             /\ calls' = Append(calls, list(failure))
             /\ Raise(failure.exception)
             /\ UNCHANGED <<resource, pending, record_sets>>
        \/ \E listing \in RecordSetListings :
             LET hits == FilteredRecords(listing, DottedName(identifier))
             IN /\ calls' = Append(calls, list(NoFailure))
                /\ record_sets' = listing
                /\ IF hits # <<>>
                   THEN /\ Return(RecordResource(identifier, Head(hits)))
                        /\ pending' = <<>>
                   ELSE IF Len(pending) > 1
                   THEN /\ pending' = Tail(pending)
                        /\ UNCHANGED <<pc, resource, exit_status, error>>
                   ELSE /\ Exit(2)
                        /\ pending' = <<>>
                        /\ resource' = NoneResource
  /\ stdout' = stdout \o Diagnostic(verbose, "Checking zone")
  /\ UNCHANGED <<args, all_zones, answer>>

\* print(f"Resource : type = ..., sub type = ..., name = ...")
ResourceLine(r) ==
  [kind |-> "resource", type |-> r.type, sub_type |-> r.sub_type, name |-> r.name]

\* main, lines 358-363: the descriptor is printed under --verbose or
\* --dry-run, and described unless --dry-run.
PrintResource ==
  /\ pc = "classified"
  /\ stdout' = IF ShouldPrintResource(verbose, dry_run)
               THEN Append(stdout, ResourceLine(resource))
               ELSE stdout
  /\ IF ShouldDescribe(dry_run)
     THEN pc' = "describe" /\ UNCHANGED <<exit_status, error>>
     ELSE Exit(0)
  /\ UNCHANGED <<args, resource, all_zones, pending, record_sets, answer, calls>>

\* print_json(o)
Json(o) == [kind |-> "json", doc |-> o]

\* What the s3 and route53 lookups can answer.
LocationConstraints == {NoneVal, <<>>, <<"e","u">>}
VersioningAnswers == {[Status |-> "Enabled"], [MFADelete |-> "Disabled"]}
TagSets == { <<[Key |-> "team", Value |-> "ops"]>> }
HeadObjectAnswers == {[ETag |-> "etag"]}
HostedZoneAnswers == {[Name |-> "zone"]}
UsEast1 == <<"u","s","-","e","a","s","t","-","1">>

\* describe_resource, type ec2: describe_ec2_resource and print_json.  A
\* sub_type without a branch makes no lookup and prints the empty data.
DescribeEc2 ==
  /\ pc = "describe"
  /\ resource.type = Ec2
  /\ LET lookup == Ec2Lookup(resource.sub_type)
     IN IF lookup = "none"
        THEN /\ stdout' = Append(stdout, Json(Ec2Data(resource, full, EmptyDict)))
             /\ Exit(0)
             /\ UNCHANGED <<calls, answer>>
        ELSE \/ \E item \in Ec2Items(resource.sub_type) :
                  /\ calls' = Append(calls, Call(lookup, resource.name, NoFailure))
                  /\ answer' = item
                  /\ stdout' = stdout \o Diagnostic(verbose, "Querying")
                                      \o <<Json(Ec2Data(resource, full, item))>>
                  /\ Exit(0)
             \/ \E failure \in Failures :
                  /\ calls' = Append(calls, Call(lookup, resource.name, failure))
                  /\ Raise(failure.exception)
                  /\ stdout' = stdout \o Diagnostic(verbose, "Querying")
                  /\ UNCHANGED answer
  /\ UNCHANGED <<args, resource, all_zones, pending, record_sets>>

\* bucket_name of describe_resource.
BucketName(r) == IF r.sub_type = Bucket THEN r.name ELSE r.name[1]

\* X or "us-east-1": None and the empty str are both false.
RegionOf(constraint) ==
  IF constraint = NoneVal \/ constraint = <<>> THEN UsEast1 ELSE constraint

\* .get("Status", "Disabled")
StatusOf(versioning) ==
  IF "Status" \in DOMAIN versioning THEN versioning.Status ELSE "Disabled"

\* describe_resource, type s3, sub_type bucket: location, versioning and
\* tagging, the last inside try/except.
DescribeS3Bucket ==
  /\ pc = "describe"
  /\ resource.type = S3
  /\ resource.sub_type = Bucket
  /\ LET location(outcome) == Call("s3.get_bucket_location", BucketName(resource), outcome)
         versioning(outcome) == Call("s3.get_bucket_versioning", resource.name, outcome)
         tagging(outcome) == Call("s3.get_bucket_tagging", resource.name, outcome)
     IN \/ \E failure \in Failures :
             /\ calls' = calls \o <<location(failure)>>
             /\ Raise(failure.exception)
             /\ UNCHANGED stdout
        \/ \E failure \in Failures :
             /\ calls' = calls \o <<location(NoFailure), versioning(failure)>>
             /\ Raise(failure.exception)
             /\ UNCHANGED stdout
        \/ \E constraint \in LocationConstraints, status \in VersioningAnswers,
              tags \in TagSets, outcome \in Outcomes :
             LET bucket == [name |-> resource.name,
                            region |-> RegionOf(constraint),
                            versioning |-> [status |-> StatusOf(status)]]
             IN /\ calls' = calls \o <<location(NoFailure), versioning(NoFailure),
                                       tagging(outcome)>>
                /\ IF outcome = NoFailure
                   THEN /\ stdout' = Append(stdout, Json(bucket @@ [tags |-> tags]))
                        /\ Exit(0)
                   ELSE IF TaggingCaught(outcome)
                   THEN /\ stdout' = Append(stdout, Json(bucket @@ [tags |-> EmptyDict]))
                        /\ Exit(0)
                   ELSE /\ Raise(outcome.exception)
                        /\ UNCHANGED stdout
  /\ UNCHANGED <<args, resource, all_zones, pending, record_sets, answer>>

\* describe_resource, type s3, any other sub_type: the location, then
\* head_object for an object and "Unknown S3 thing", sys.exit(2), otherwise.
DescribeS3Object ==
  /\ pc = "describe"
  /\ resource.type = S3
  /\ resource.sub_type # Bucket
  /\ LET location(outcome) == Call("s3.get_bucket_location", BucketName(resource), outcome)
         head(outcome) == Call("s3.head_object", resource.name, outcome)
     IN \/ \E failure \in Failures :
             /\ calls' = calls \o <<location(failure)>>
             /\ Raise(failure.exception)
             /\ UNCHANGED stdout
        \/ \E constraint \in LocationConstraints, outcome \in Outcomes,
              metadata \in HeadObjectAnswers :
             IF resource.sub_type # Object
             THEN /\ calls' = calls \o <<location(NoFailure)>>
                  /\ Exit(2)
                  /\ UNCHANGED stdout
             ELSE /\ calls' = calls \o <<location(NoFailure), head(outcome)>>
                  /\ IF outcome = NoFailure
                     THEN /\ stdout' = Append(stdout,
                               Json(metadata @@
                                    [bucket |-> resource.name[1], key |-> resource.name[2],
                                     region |-> RegionOf(constraint)]))
                          /\ Exit(0)
                     ELSE /\ Raise(outcome.exception)
                          /\ UNCHANGED stdout
  /\ UNCHANGED <<args, resource, all_zones, pending, record_sets, answer>>

\* describe_resource, type route53: a record prints the data it carries; any
\* other sub_type goes to describe_route53_resource, get_hosted_zone(Id=name).
DescribeRoute53 ==
  /\ pc = "describe"
  /\ resource.type = Route53
  /\ IF resource.sub_type = Record
     THEN /\ stdout' = Append(stdout, Json(resource.data))
          /\ Exit(0)
          /\ UNCHANGED calls
     ELSE \/ \E zone \in HostedZoneAnswers :
               /\ calls' = Append(calls, Call("route53.get_hosted_zone", resource.name, NoFailure))
               /\ stdout' = Append(stdout, Json(zone))
               /\ Exit(0)
          \/ \E failure \in Failures :
               /\ calls' = Append(calls, Call("route53.get_hosted_zone", resource.name, failure))
               /\ Raise(failure.exception)
               /\ UNCHANGED stdout
  /\ UNCHANGED <<args, resource, all_zones, pending, record_sets, answer>>

\* describe_resource, any other type: no branch of the if/elif ladder is
\* taken, nothing is printed, and main returns.
DescribeOther ==
  /\ pc = "describe"
  /\ resource.type \notin {Ec2, S3, Route53}
  /\ Exit(0)
  /\ UNCHANGED <<args, resource, all_zones, pending, record_sets, answer, calls, stdout>>

Next ==
  \/ CredentialCheck
  \/ ClassifyArn
  \/ ClassifyS3Url
  \/ ClassifyBare
  \/ ListHostedZones
  \/ ListResourceRecordSets
  \/ PrintResource
  \/ DescribeEc2
  \/ DescribeS3Bucket
  \/ DescribeS3Object
  \/ DescribeRoute53
  \/ DescribeOther

Spec == Init /\ [][Next]_vars

\* =================================================================== claims
\* The APIs describe_resource and describe_ec2_resource call.
DescribeApis ==
  {"ec2.describe_instances", "ec2.describe_subnets", "ec2.describe_vpcs",
   "ec2.describe_volumes", "ec2.describe_snapshots", "s3.get_bucket_location",
   "s3.get_bucket_versioning", "s3.get_bucket_tagging", "s3.head_object",
   "route53.get_hosted_zone"}
ListingApis == {"route53.list_hosted_zones", "route53.list_resource_record_sets"}
DescribeCalls == SelectSeq(calls, LAMBDA c : c.api \in DescribeApis)
ListingCalls == SelectSeq(calls, LAMBDA c : c.api \in ListingApis)
\* The pre-flight check passed.
CredentialsOk == calls # <<>> /\ calls[1].outcome = NoFailure
\* Classification is over and no listing call of it failed.
ClassificationOver ==
  /\ CredentialsOk
  /\ pc \notin {"classify", "r53_search"}
  /\ \A i \in 1..Len(ListingCalls) : ListingCalls[i].outcome = NoFailure
\* determine_resource_type returned a descriptor: every dict it returns has
\* the key "sub_type", which the dict it starts from and None have not.
Returned == "sub_type" \in DOMAIN resource
ClassificationSucceeded == ClassificationOver /\ Returned
ClassificationFailed == ClassificationOver /\ ~Returned
\* The run went through describe_resource and is over.
DescribeOver == ClassificationSucceeded /\ pc = "done" /\ ~dry_run
JsonPrinted == {i \in 1..Len(stdout) : stdout[i].kind = "json"}
LastPrinted == stdout[Len(stdout)]

\* ----------------------------------------------------------------- C1
\* The parts of arn:aws:ec2:<region>:<account>:<sub>/<name>: the region ends
\* at the next ":", the account at the one after, sub at the first "/".
Ec2ArnHead == ArnAws \o Ec2 \o <<":">>
Ec2ArnParts(id) ==
  LET rest == Drop(id, Len(Ec2ArnHead))
      i == Find(rest, ":")
      afterRegion == Drop(rest, i)
      j == Find(afterRegion, ":")
      res == Drop(afterRegion, j)
      k == Find(res, "/")
  IN [region |-> SubSeq(rest, 1, i - 1),
      account |-> SubSeq(afterRegion, 1, j - 1),
      delimited |-> i <= Len(rest) /\ j <= Len(afterRegion) /\ k <= Len(res),
      sub |-> SubSeq(res, 1, k - 1),
      name |-> Drop(res, k)]
IsEc2ArnForm(id) ==
  /\ StartsWith(id, Ec2ArnHead)
  /\ \A m \in 1..Len(id) : id[m] \notin Spaces
  /\ LET p == Ec2ArnParts(id)
     IN /\ p.delimited
        /\ \A m \in 1..Len(p.account) : p.account[m] \in Digits
        /\ p.sub # <<>>
        /\ p.name # <<>>

\* C1 (as claimed, read for identifiers without whitespace): every identifier
\* arn:aws:ec2:<region>:<account>:<sub>/<name> with a non-empty sub free of "/"
\* and a non-empty name, which may hold further "/", classifies as type ec2,
\* sub_type sub, name everything after the first "/".
C1_Ec2ArnClassified ==
  (CredentialsOk /\ pc # "classify" /\ IsEc2ArnForm(identifier)) =>
    /\ ClassificationSucceeded
    /\ resource.type = Ec2
    /\ resource.sub_type = Ec2ArnParts(identifier).sub
    /\ resource.name = Ec2ArnParts(identifier).name

\* ----------------------------------------------------------------- C2
\* C2 (as claimed): every classification failure, a malformed ARN and an
\* s3:// URL with no bucket included, ends the run with exit status 2, with
\* no unhandled error and no describe call.
C2_ClassificationFailureExits2 ==
  ClassificationFailed =>
    /\ pc = "done"
    /\ exit_status = 2
    /\ error = "none"
    /\ DescribeCalls = <<>>

\* ----------------------------------------------------------------- C3
S3UrlRest(id) == Drop(id, Len(S3Scheme))
S3UrlBucket(id) == SubSeq(S3UrlRest(id), 1, Find(S3UrlRest(id), "/") - 1)
S3UrlKey(id) == Drop(S3UrlRest(id), Find(S3UrlRest(id), "/"))
\* An identifier is the trimmed input: no whitespace at either end.
IsS3UrlForm(id) ==
  /\ StartsWith(id, S3Scheme)
  /\ S3UrlBucket(id) # <<>>
  /\ id[Len(id)] \notin Spaces

\* C3 (as claimed): every identifier s3://<bucket><rest> with a non-empty
\* bucket classifies as type s3; as sub_type bucket with name bucket when
\* nothing follows the first "/" or there is none, and as sub_type object with
\* name [bucket, key], key everything after the first "/", otherwise.
C3_S3UrlClassified ==
  (CredentialsOk /\ pc # "classify" /\ IsS3UrlForm(identifier)) =>
    /\ ClassificationSucceeded
    /\ resource.type = S3
    /\ IF S3UrlKey(identifier) = <<>>
       THEN resource.sub_type = Bucket /\ resource.name = S3UrlBucket(identifier)
       ELSE /\ resource.sub_type = Object
            /\ resource.name = <<S3UrlBucket(identifier), S3UrlKey(identifier)>>

\* ----------------------------------------------------------------- C4
InstanceDescribed ==
  /\ DescribeOver
  /\ resource.type = Ec2
  /\ resource.sub_type = Instance
  /\ exit_status = 0

\* C4 (as claimed): an ec2 instance described with full = false gives exactly
\* the five allow-listed keys, whatever keys the instance record holds; with
\* full = true it gives the record unfiltered.
C4_ExactlyFiveKeys ==
  InstanceDescribed =>
    IF full THEN LastPrinted.doc = answer
    ELSE DOMAIN LastPrinted.doc = FilteredAttributes

\* C4 (amended): with full = false the result holds exactly those of the five
\* allow-listed keys that the instance record holds, each with the record's
\* value, whatever other keys the record holds; with full = true it is the
\* record unfiltered.
C4_AllowListedKeysOfRecord ==
  InstanceDescribed =>
    IF full THEN LastPrinted.doc = answer
    ELSE /\ DOMAIN LastPrinted.doc = DOMAIN answer \cap FilteredAttributes
         /\ \A n \in DOMAIN LastPrinted.doc : LastPrinted.doc[n] = answer[n]

\* An instance record with a key outside the allow-list and without one of the
\* allow-listed keys was described with full = false.
C4_Witness ==
  /\ InstanceDescribed
  /\ ~full
  /\ "StateReason" \in DOMAIN answer
  /\ "VpcId" \notin DOMAIN answer
  /\ "SubnetId" \in DOMAIN LastPrinted.doc

\* ----------------------------------------------------------------- C5
BucketDescribeOver ==
  DescribeOver /\ resource.type = S3 /\ resource.sub_type = Bucket
IsTaggingNotFound(c) ==
  /\ c.api = "s3.get_bucket_tagging"
  /\ c.outcome.exception = "ClientError"
  /\ c.outcome.code = "NotFound"

\* C5 (as claimed): describing a bucket, a tagging call that fails as not
\* found gives tags = {} and the description is printed; any other failure of
\* the tagging call and any failure of the other calls propagates as an error
\* and nothing is printed.
C5_OnlyTaggingNotFoundRecovered ==
  BucketDescribeOver =>
    \A i \in 1..Len(DescribeCalls) :
      LET c == DescribeCalls[i]
      IN c.outcome # NoFailure =>
           IF IsTaggingNotFound(c)
           THEN /\ exit_status = 0
                /\ JsonPrinted # {}
                /\ LastPrinted.doc.tags = EmptyDict
           ELSE /\ error # "none"
                /\ JsonPrinted = {}

\* ----------------------------------------------------------------- C6
Supported(r) ==
  \/ r.type = Ec2 /\ r.sub_type \in {Instance, Subnet, Vpc, Volume, Snapshot}
  \/ r.type = S3 /\ r.sub_type \in {Bucket, Object}
  \/ r.type = Route53 /\ r.sub_type \in {HostedZone, Record}

\* C6 (as claimed): describing a descriptor whose (type, sub_type) is not one
\* of the supported pairs fails with an unsupported-resource-type error,
\* prints no description and issues no lookup call.
C6_UnsupportedFails ==
  (DescribeOver /\ ~Supported(resource)) =>
    /\ error = "UnsupportedResourceTypeError"
    /\ JsonPrinted = {}
    /\ DescribeCalls = <<>>

\* ----------------------------------------------------------------- C7
\* C7: with --dry-run no describe-time call is ever issued: the only calls are
\* the pre-flight check and the Route 53 listings of classification, and a
\* run that classified its identifier ends with status 0, the last thing it
\* printed being the descriptor's type, sub_type and name, and no description
\* is printed.
C7_DryRunNeverDescribes ==
  dry_run =>
    /\ pc # "describe"
    /\ \A i \in 1..Len(calls) :
         calls[i].api \in {"iam.get_account_summary"} \cup ListingApis
    /\ (ClassificationSucceeded /\ pc = "done") =>
         /\ exit_status = 0
         /\ error = "none"
         /\ JsonPrinted = {}
         /\ stdout # <<>>
         /\ LastPrinted.kind = "resource"
         /\ LastPrinted.type = resource.type
         /\ LastPrinted.sub_type = resource.sub_type
         /\ LastPrinted.name = resource.name

\* A dry run that resolved a Route 53 record, listing zones and record sets
\* on the way, and ended.
C7_Witness ==
  /\ dry_run
  /\ pc = "done"
  /\ ClassificationSucceeded
  /\ resource.type = Route53
  /\ resource.sub_type = Record
  /\ Len(ListingCalls) >= 2
  /\ LastPrinted.kind = "resource"

\* ----------------------------------------------------------------- C8
\* The prefixes in the order the claim gives them, with their sub_types.
PrefixOrder ==
  << [prefix |-> PrefixI, sub_type |-> Instance],
     [prefix |-> PrefixSubnet, sub_type |-> Subnet],
     [prefix |-> PrefixSnap, sub_type |-> Snapshot],
     [prefix |-> PrefixVol, sub_type |-> Volume],
     [prefix |-> PrefixVpc, sub_type |-> Vpc] >>
MatchingPrefixes(id) ==
  {i \in 1..Len(PrefixOrder) : StartsWith(id, PrefixOrder[i].prefix)}
FirstMatchingPrefix(id) ==
  CHOOSE i \in MatchingPrefixes(id) : \A j \in MatchingPrefixes(id) : i <= j
IsBare(id) == ~StartsWith(id, ArnPrefix) /\ ~StartsWith(id, S3Scheme)

\* C8: for an identifier that is neither an ARN nor an S3 URL and has one of
\* the prefixes i-, subnet-, snap-, vol-, vpc-, the first prefix in that order
\* decides: the descriptor is ec2 with that prefix's sub_type and the
\* identifier verbatim as name, and no Route 53 call is ever issued, also when
\* the identifier has the shape of a DNS name.
C8_PrefixDecides ==
  (IsBare(identifier) /\ MatchingPrefixes(identifier) # {}) =>
    /\ ListingCalls = <<>>
    /\ (CredentialsOk /\ pc # "classify") =>
         /\ ClassificationSucceeded
         /\ resource.type = Ec2
         /\ resource.sub_type = PrefixOrder[FirstMatchingPrefix(identifier)].sub_type
         /\ resource.name = identifier

\* A snap- identifier with a dot in it, classified as an ec2 snapshot.
C8_Witness ==
  /\ StartsWith(identifier, PrefixSnap)
  /\ \E i \in 1..Len(identifier) : identifier[i] = "."
  /\ LooksLikeDnsName(identifier)
  /\ ClassificationSucceeded
  /\ resource.sub_type = Snapshot
  /\ resource.name = identifier

\* ----------------------------------------------------------------- C9
Consistent(r) ==
  /\ r.type = Ec2 => r.sub_type \in {Instance, Subnet, Snapshot, Volume, Vpc}
  /\ r.type = S3 => r.sub_type \in {Bucket, Object}
  /\ r.type = Route53 => r.sub_type \in {HostedZone, Record}

\* C9 (as claimed): every descriptor classification returns has type ec2 only
\* with sub_type instance, subnet, snapshot, volume or vpc, type s3 only with
\* bucket or object, and type route53 only with hosted_zone or record.
C9_TypeAndSubTypeConsistent ==
  ClassificationSucceeded => Consistent(resource)

\* C9 (amended): the same, but for the descriptors of ec2 and route53 ARNs: an
\* ec2 ARN gives as sub_type whatever text stands before the "/" of its
\* resource part (bucket included), a route53 ARN gives sub_type null.
C9_ConsistentButForArns ==
  ClassificationSucceeded =>
    \/ Consistent(resource)
    \/ /\ StartsWith(identifier, ArnAws \o Ec2 \o <<":">>)
       /\ resource.type = Ec2
       /\ EndsWith(identifier, <<":">> \o resource.sub_type \o <<"/">> \o resource.name)
    \/ /\ StartsWith(identifier, ArnAws \o Route53 \o <<":">>)
       /\ resource.type = Route53
       /\ resource.sub_type = NoneVal

\* A snap- identifier was classified as an ec2 snapshot.
C9_Witness ==
  /\ ClassificationSucceeded
  /\ StartsWith(identifier, PrefixSnap)
  /\ resource.type = Ec2
  /\ resource.sub_type = Snapshot

\* ---------------------------------------------------------------- C10
\* identifier with its trailing dot.
FullyQualified(id) == IF id[Len(id)] = "." THEN id ELSE id \o <<".">>
\* The zones of the listing whose name is a suffix of the name, in order.
CandidateZones ==
  SelectSeq(all_zones, LAMBDA z : EndsWith(FullyQualified(identifier), z.Name))
\* The zones whose record sets were listed, in order.
SearchedZones ==
  SelectSeq(calls, LAMBDA c : c.api = "route53.list_resource_record_sets")
Route53Resolved ==
  /\ ClassificationOver
  /\ Len(ListingCalls) >= 1

\* C10 (as claimed): when the fully-qualified name is a zone's name the result
\* is that zone as hosted_zone and no record sets are listed; otherwise the
\* candidate zones are searched in the order of the listing, the first record
\* with the name is returned as record and no later zone is queried; and the
\* run ends as unrecognized, with status 2, only when no candidate zone holds
\* such a record, every one of them having been searched.
C10_Route53Resolution ==
  Route53Resolved =>
    IF \E i \in 1..Len(all_zones) : all_zones[i].Name = FullyQualified(identifier)
    THEN /\ Returned
         /\ resource.type = Route53
         /\ resource.sub_type = HostedZone
         /\ \E i \in 1..Len(all_zones) :
              /\ all_zones[i].Name = FullyQualified(identifier)
              /\ all_zones[i].Id = resource.name
         /\ SearchedZones = <<>>
    ELSE IF Returned
    THEN /\ resource.type = Route53
         /\ resource.sub_type = Record
         /\ resource.name = identifier
         /\ Len(SearchedZones) \in 1..Len(CandidateZones)
         /\ \A i \in 1..Len(SearchedZones) : SearchedZones[i].arg = CandidateZones[i].Id
         /\ \E i \in 1..Len(record_sets) :
              /\ record_sets[i].Name = FullyQualified(identifier)
              /\ \A j \in 1..(i - 1) : record_sets[j].Name # FullyQualified(identifier)
              /\ resource.data = record_sets[i]
    ELSE /\ pc = "done"
         /\ exit_status = 2
         /\ error = "none"
         /\ Len(SearchedZones) = Len(CandidateZones)
         /\ \A i \in 1..Len(SearchedZones) : SearchedZones[i].arg = CandidateZones[i].Id

====
